---- MODULE Spec2Model ----
(***************************************************************************)
(* Cash-secured-put scan of api/options-scan-live.js: the Yahoo session    *)
(* (ensureYahooSession), the memoized chain fetch (fetchYahooOptions), the *)
(* candidate filter and metrics, and the batched handler with its dedup    *)
(* and sort.                                                               *)
(*                                                                         *)
(* Numbers.  A JavaScript number that the code treats exactly (prices,     *)
(* ratios, percentages) is a rational [n, d] in lowest terms with d > 0;   *)
(* the JavaScript null is the record Null (d = 0).  The transcendental     *)
(* part (normCdf, bsPutDelta) is computed in fixed point with FIX units    *)
(* per 1.  A field of a provider JSON object is a raw value: absent, JSON  *)
(* null, a number, or something Number() turns into NaN.                   *)
(***************************************************************************)
EXTENDS Integers, Sequences, FiniteSets, TLC

\* ------------------------------------------------------------ rationals

RECURSIVE GCD(_, _)
GCD(a, b) ==
    IF b = 0 THEN a ELSE GCD(b, a % b)

Abs(x) ==
    IF x < 0 THEN -x ELSE x

Null ==
    [n |-> 0, d |-> 0]

IsNull(x) ==
    x.d = 0

\* the rational n/d (d # 0) in lowest terms
Rat(n, d) ==
    LET g == GCD(Abs(n), Abs(d))
        s == IF d < 0 THEN -1 ELSE 1
    IN  [n |-> s * (n \div g), d |-> s * (d \div g)]

Int2Rat(i) ==
    [n |-> i, d |-> 1]

RAdd(x, y) ==
    Rat(x.n * y.d + y.n * x.d, x.d * y.d)

RSub(x, y) ==
    Rat(x.n * y.d - y.n * x.d, x.d * y.d)

RMul(x, y) ==
    Rat(x.n * y.n, x.d * y.d)

\* x / y for y # 0
RDiv(x, y) ==
    Rat(x.n * y.d, x.d * y.n)

RLt(x, y) ==
    x.n * y.d < y.n * x.d

RLe(x, y) ==
    x.n * y.d <= y.n * x.d

RAbs(x) ==
    [n |-> Abs(x.n), d |-> x.d]

\* Math.floor of a rational
RFloor(x) ==
    x.n \div x.d

\* ------------------------------------------------------------ raw JSON values

RawUndef ==
    [k |-> "undef", n |-> 0, d |-> 0]

RawNull ==
    [k |-> "null", n |-> 0, d |-> 0]

RawNaN ==
    [k |-> "nan", n |-> 0, d |-> 0]

RawNum(n, d) ==
    [k |-> "num", n |-> Rat(n, d).n, d |-> Rat(n, d).d]

\* a mutant of num: JSON null is read as "no value" as well
num_nullIsNull(x) ==
    IF x.k = "num" THEN [n |-> x.n, d |-> x.d] ELSE Null

\* num(x): Number(x) when finite, else null.  Number(undefined) and
\* Number("abc") are NaN; Number(null) is 0.
num(x) ==
    CASE x.k = "num"   -> [n |-> x.n, d |-> x.d]
      [] x.k = "null"  -> Int2Rat(0)
      [] OTHER         -> Null

\* ------------------------------------------------------------ fixed point

\* units per 1 of a fixed-point value
FIX ==
    1000 * 1000

\* |x| from which normCdf(x) is 0 or 1 at this precision, and where
\* quotients saturate
FMAX ==
    40 * FIX

Sgn(x) ==
    IF x < 0 THEN -1 ELSE 1

\* a * b on fixed-point values (|a|, |b| <= FMAX), split in base 1000
FMul(a, b) ==
    LET x  == Abs(a)
        y  == Abs(b)
        x1 == x \div 1000
        x0 == x % 1000
        y1 == y \div 1000
        y0 == y % 1000
    IN  Sgn(a) * Sgn(b) * (x1 * y1 + ((x1 * y0 + x0 * y1 + ((x0 * y0) \div 1000)) \div 1000))

\* n / d (integers, 0 < |d| < 21 * FIX) as a fixed-point value, by long
\* division in base 100, saturating at FMAX
LongDiv(n, d) ==
    LET x  == Abs(n)
        y  == Abs(d)
        q0 == x \div y
        r0 == x % y
        q1 == (r0 * 100) \div y
        r1 == (r0 * 100) % y
        q2 == (r1 * 100) \div y
        r2 == (r1 * 100) % y
        q3 == (r2 * 100) \div y
    IN  IF q0 >= 40 THEN Sgn(n) * Sgn(d) * FMAX
        ELSE Sgn(n) * Sgn(d) * (q0 * FIX + q1 * 10000 + q2 * 100 + q3)

FDiv(a, b) ==
    LongDiv(a, b)

ToFix(r) ==
    LongDiv(r.n, r.d)

\* the largest s in lo..hi with s * s <= n
RECURSIVE ISqrtIn(_, _, _)
ISqrtIn(n, lo, hi) ==
    IF lo >= hi THEN lo
    ELSE LET mid == (lo + hi + 1) \div 2
         IN  IF mid * mid <= n THEN ISqrtIn(n, mid, hi) ELSE ISqrtIn(n, lo, mid - 1)

ISqrt(n) ==
    ISqrtIn(n, 0, 46340)

RECURSIVE Newton(_, _, _)
Newton(v, s, k) ==
    IF k = 0 THEN s ELSE Newton(v, (s + FDiv(v, s)) \div 2, k - 1)

\* Math.sqrt on a fixed-point value v >= 0
FSqrt(v) ==
    IF v <= 0 THEN 0 ELSE Newton(v, (ISqrt(v) + 1) * 1000, 4)

\* Math.log(2)
LN2 ==
    693147

\* sum of z^k / k for odd k from k to 13, zk = z^k
RECURSIVE AtanhSeries(_, _, _)
AtanhSeries(z2, zk, k) ==
    IF k > 13 \/ zk = 0 THEN 0
    ELSE (zk \div k) + AtanhSeries(z2, FMul(zk, z2), k + 2)

\* Math.log on a fixed-point value r > 0
RECURSIVE FLn(_)
FLn(r) ==
    IF r > 2 * FIX THEN FLn(r \div 2) + LN2
    ELSE IF 2 * r < FIX THEN FLn(2 * r) - LN2
    ELSE LET z == FDiv(r - FIX, r + FIX)
         IN  2 * AtanhSeries(FMul(z, z), z, 1)

\* sum of (-f)^j / j! for j from k to 12, term = (-f)^k / k!
RECURSIVE ExpSeries(_, _, _)
ExpSeries(f, term, k) ==
    IF k > 12 \/ term = 0 THEN 0
    ELSE term + ExpSeries(f, (0 - FMul(term, f)) \div (k + 1), k + 1)

\* Math.exp(-1)
EINV ==
    367879

RECURSIVE FPow(_, _)
FPow(b, m) ==
    IF m = 0 THEN FIX ELSE FMul(b, FPow(b, m - 1))

\* Math.exp(-y) on a fixed-point value y >= 0
FExpNeg(y) ==
    IF y >= 20 * FIX THEN 0
    ELSE FMul(FPow(EINV, y \div FIX), ExpSeries(y % FIX, FIX, 0))

\* ------------------------------------------------------------ pricing math

\* normCdf(x), Abramowitz and Stegun 26.2.17, on a fixed-point x
normCdf(x) ==
    LET ax     == IF Abs(x) > FMAX THEN FMAX ELSE Abs(x)
        k      == FDiv(FIX, FIX + FMul(231642, ax))
        a1     == 319382
        a2     == 0 - 356564
        a3     == 1781478
        a4     == 0 - 1821256
        a5     == 1330274
        poly   == FMul(FMul(FMul(FMul(FMul(a5, k) + a4, k) + a3, k) + a2, k) + a1, k)
        approx == FIX - FMul(FMul(398942, FExpNeg(FMul(ax, ax) \div 2)), poly)
    IN  IF x < 0 THEN FIX - approx ELSE approx

\* Numbers too long for one integer are sequences of digits in base 10000,
\* lowest digit first.

\* the sum of a[i] * b[j] over i + j = k + 1
RECURSIVE Conv(_, _, _, _)
Conv(a, b, k, i) ==
    IF i > Len(a) THEN 0
    ELSE (IF k + 1 - i >= 1 /\ k + 1 - i <= Len(b) THEN a[i] * b[k + 1 - i] ELSE 0)
             + Conv(a, b, k, i + 1)

\* the digits k.. of a * b, with the carry c from the digits below
RECURSIVE WideMulFrom(_, _, _, _)
WideMulFrom(a, b, k, c) ==
    IF k > Len(a) + Len(b) THEN <<>>
    ELSE LET v == Conv(a, b, k, 1) + c
         IN  <<v % 10000>> \o WideMulFrom(a, b, k + 1, v \div 10000)

\* a * b
WideMul(a, b) ==
    WideMulFrom(a, b, 1, 0)

\* a < b for numbers of the same length, from digit k down
RECURSIVE WideLessFrom(_, _, _)
WideLessFrom(a, b, k) ==
    IF k = 0 THEN FALSE
    ELSE IF a[k] # b[k] THEN a[k] < b[k]
    ELSE WideLessFrom(a, b, k - 1)

WideLess(a, b) ==
    WideLessFrom(a, b, Len(a))

\* 1 / Math.sqrt(2 * Math.PI) = 0.3989422804014..., rounded up to 11
\* decimals: 0.39894228041
INV_SQRT_2PI_UP ==
    <<8041, 9422, 398>>

\* poly at x = 0, where k = 1: a5 + a4 + a3 + a2 + a1, in units of 1e-9
PolyAtZero ==
    LET a1 == 319381530
        a2 == 0 - 356563782
        a3 == 1781477937
        a4 == 0 - 1821255978
        a5 == 1330274429
        p  == (((a5 + a4) + a3) + a2) + a1
    IN  <<p % 10000, (p \div 10000) % 10000, p \div (10000 * 10000)>>

\* 1 / 2 in units of 1e-20
WideHalf ==
    <<0, 0, 0, 0, 5000, 0>>

\* normCdf(0) = 1 - (1 / sqrt(2 pi)) * exp(0) * poly is above 1 / 2: the
\* product is below 1 / 2 even with the first factor rounded up
NormCdfZeroAboveHalf ==
    WideLess(WideMul(INV_SQRT_2PI_UP, PolyAtZero), WideHalf)

\* num() applied to a value that is already a number or null
numOfNum(x) ==
    IF IsNull(x) THEN Int2Rat(0) ELSE x

\* a mutant of bsPutDelta: a percent-like volatility is not divided by 100
bsPutDelta_noPercent(spot, strike, iv, dte) ==
    LET S        == numOfNum(spot)
        K        == numOfNum(strike)
        sigmaRaw == numOfNum(iv)
    IN  IF ~(S.n > 0) \/ ~(K.n > 0) THEN Null
        ELSE IF ~(sigmaRaw.n > 0) THEN Null
        ELSE LET T     == IF dte > 0 THEN Rat(dte, 365) ELSE Rat(1, 365)
                 sg    == ToFix(sigmaRaw)
                 Tf    == ToFix(T)
                 lnSK  == FLn(ToFix(RDiv(S, K)))
                 numer == lnSK + FMul(FMul(FIX \div 2, FMul(sg, sg)), Tf)
                 denom == FMul(sg, FSqrt(Tf))
                 d1    == IF denom = 0 THEN Sgn(numer) * FMAX ELSE FDiv(numer, denom)
             IN  Rat(normCdf(d1) - FIX, FIX)

\* bsPutDelta(spot, strike, iv, dte): spot, strike, iv rationals or Null,
\* dte an integer; the result is a rational in units of 1 / FIX, or Null
bsPutDelta(spot, strike, iv, dte) ==
    LET S        == numOfNum(spot)
        K        == numOfNum(strike)
        sigmaRaw == numOfNum(iv)
    IN  IF ~(S.n > 0) \/ ~(K.n > 0) THEN Null
        ELSE IF ~(sigmaRaw.n > 0) THEN Null
        ELSE LET sigma == IF RLt(Int2Rat(3), sigmaRaw) THEN RDiv(sigmaRaw, Int2Rat(100))
                          ELSE sigmaRaw
                 T     == IF dte > 0 THEN Rat(dte, 365) ELSE Rat(1, 365)
                 sg    == ToFix(sigma)
                 Tf    == ToFix(T)
                 lnSK  == FLn(ToFix(RDiv(S, K)))
                 numer == lnSK + FMul(FMul(FIX \div 2, FMul(sg, sg)), Tf)
                 denom == FMul(sg, FSqrt(Tf))
                 d1    == IF denom = 0 THEN Sgn(numer) * FMAX ELSE FDiv(numer, denom)
             IN  Rat(normCdf(d1) - FIX, FIX)

\* ------------------------------------------------------------ run dates

\* A clock is [D, h, o]: the local calendar day D (days since 1970-01-01
\* in local time), the local hour h, and the zone offset o in hours
\* (local = UTC + o).

\* Date.getDay() of local day D (1970-01-01 was a Thursday)
getDay(D) ==
    (D + 4) % 7

\* nextFridayISO(): local midnight of the upcoming Friday, printed by
\* toISOString() as a UTC date (a day number)
nextFridayISO(c) ==
    LET day == getDay(c.D)
        m   == (5 - day + 7) % 7
        add == IF m = 0 THEN 7 ELSE m
    IN  ((c.D + add) * 24 - c.o) \div 24

\* new Date().toISOString().slice(0, 10): today's UTC date
todayISO(c) ==
    (c.D * 24 + c.h - c.o) \div 24

daysBetween(a, b) ==
    b - a

Max(a, b) ==
    IF a > b THEN a ELSE b

\* the dates of a run: [exp, trade_dt, dte]
RunDates(c) ==
    [exp      |-> nextFridayISO(c),
     trade_dt |-> todayISO(c),
     dte      |-> Max(daysBetween(todayISO(c), nextFridayISO(c)), 0)]

\* ------------------------------------------------------------ candidates

DAY_SEC ==
    24 * 60 * 60

\* premium: midpoint, else the side present, else the last trade
Premium(bid, ask, last) ==
    IF ~IsNull(bid) /\ ~IsNull(ask) THEN RDiv(RAdd(bid, ask), Int2Rat(2))
    ELSE IF ~IsNull(bid) THEN bid
    ELSE IF ~IsNull(ask) THEN ask
    ELSE last

\* a mutant of StrikeSkipped: the strike may equal the spot
StrikeSkipped_atSpot(strike, spot) ==
    IsNull(strike) \/ RLt(spot, strike) \/ RLt(strike, Int2Rat(0))

\* strike == null, or strike >= maxStrike || strike < minStrike
StrikeSkipped(strike, spot) ==
    IsNull(strike) \/ RLe(spot, strike) \/ RLt(strike, Int2Rat(0))

\* a mutant of PriceSkipped: only the premium is required to be positive
PriceSkipped_premiumOnly(bid, premium) ==
    IsNull(premium) \/ RLe(premium, Int2Rat(0))

\* a mutant of PriceSkipped: only the bid is required to be positive
PriceSkipped_bidOnly(bid, premium) ==
    IsNull(bid) \/ RLe(bid, Int2Rat(0))

\* bid == null || bid <= 0, or premium == null || premium <= 0
PriceSkipped(bid, premium) ==
    \/ IsNull(bid) \/ RLe(bid, Int2Rat(0))
    \/ IsNull(premium) \/ RLe(premium, Int2Rat(0))

\* delta = num(it.delta), and bsPutDelta when that is null
ResolveDelta(it, spot, strike, iv, dte) ==
    IF IsNull(num(it.delta)) THEN bsPutDelta(spot, strike, iv, dte) ELSE num(it.delta)

\* a mutant of FilterSkipped: an unknown win_rate is rejected
FilterSkipped_nullFails(win_rate, moneyness) ==
    \/ IsNull(win_rate) \/ RLt(win_rate, Int2Rat(90))
    \/ IsNull(moneyness) \/ RLe(moneyness, Rat(85, 100))

\* win_rate != null && win_rate < 90, or moneyness == null || moneyness <= 0.85
FilterSkipped(win_rate, moneyness) ==
    \/ (~IsNull(win_rate) /\ RLt(win_rate, Int2Rat(90)))
    \/ IsNull(moneyness) \/ RLe(moneyness, Rat(85, 100))

\* one iteration of the loop over puts: <<>> when the contract is skipped,
\* else the row pushed to out
ContractRow(symbol, spot, it, dt) ==
    LET expSec   == num(it.expiration)
        expOk    == /\ ~IsNull(expSec)
                    /\ expSec.n # 0
                    /\ RFloor(RDiv(expSec, Int2Rat(DAY_SEC))) = dt.exp
        strike   == num(it.strike)
        iv       == num(it.impliedVolatility)
        delta    == ResolveDelta(it, spot, strike, iv, dt.dte)
        bid      == num(it.bid)
        ask      == num(it.ask)
        premium  == Premium(bid, ask, num(it.lastPrice))
        roiBase  == bid
        win_rate == IF IsNull(delta) THEN Null
                    ELSE RMul(RSub(Int2Rat(1), RAbs(delta)), Int2Rat(100))
        iv_pct   == IF IsNull(iv) THEN Null ELSE RMul(iv, Int2Rat(100))
        roi      == RMul(RDiv(roiBase, strike), Int2Rat(100))
        roi_ann  == IF dt.dte > 0
                    THEN RMul(RMul(RDiv(roiBase, strike), Rat(365, dt.dte)), Int2Rat(100))
                    ELSE Null
        mny      == IF spot.n # 0 THEN RDiv(strike, spot) ELSE Null
    IN  IF ~expOk THEN <<>>
        ELSE IF StrikeSkipped(strike, spot) THEN <<>>
        ELSE IF PriceSkipped(bid, premium) THEN <<>>
        ELSE IF FilterSkipped(win_rate, mny) THEN <<>>
        ELSE << [ticker |-> symbol, trade_dt |-> dt.trade_dt, spot |-> spot,
                 exp |-> dt.exp, dte |-> dt.dte, strike |-> strike, bid |-> bid,
                 ask |-> ask, premium |-> premium, iv |-> iv_pct, delta |-> delta,
                 pop |-> win_rate, moneyness |-> mny, roi |-> roi,
                 roi_annualized |-> roi_ann] >>

RECURSIVE RowsOf(_, _, _, _)
RowsOf(symbol, spot, puts, dt) ==
    IF puts = <<>> THEN <<>>
    ELSE ContractRow(symbol, spot, Head(puts), dt) \o RowsOf(symbol, spot, Tail(puts), dt)

\* the fetch result "no data"
NullChain ==
    [isNull |-> TRUE, puts |-> <<>>, spot |-> Null]

\* the body of a ticker's task after fetchYahooOptions returned chain: the
\* rows it pushes to out
BuildCandidates(symbol, chain, dt) ==
    IF chain.isNull THEN <<>>
    ELSE IF Len(chain.puts) = 0 \/ IsNull(chain.spot) THEN <<>>
    ELSE RowsOf(symbol, chain.spot, chain.puts, dt)

\* spot: the first of the four quote fields that num() does not turn to null
SpotOf(q) ==
    IF ~IsNull(num(q.regularMarketPrice)) THEN num(q.regularMarketPrice)
    ELSE IF ~IsNull(num(q.bid)) THEN num(q.bid)
    ELSE IF ~IsNull(num(q.ask)) THEN num(q.ask)
    ELSE num(q.previousClose)

\* payload = { puts, spot } of a parsed 2xx body j
PayloadOf(j) ==
    [isNull |-> FALSE, puts |-> j.puts, spot |-> SpotOf(j.quote)]

\* ------------------------------------------------------------ dedup and sort

\* a mutant of ScoreAbove: the comparison is reversed
ScoreAbove_reversed(row, prev) ==
    /\ ~IsNull(prev.roi_annualized)
    /\ (IsNull(row.roi_annualized) \/ RLt(row.roi_annualized, prev.roi_annualized))

\* score > prevScore with null read as -Infinity
ScoreAbove(row, prev) ==
    /\ ~IsNull(row.roi_annualized)
    /\ (IsNull(prev.roi_annualized) \/ RLt(prev.roi_annualized, row.roi_annualized))

\* bestByTicker.set(key, row) on a Map held as the sequence of its values
\* in insertion order: a new key is appended, an old key keeps its place
RECURSIVE MapSet(_, _)
MapSet(best, row) ==
    IF best = <<>> THEN <<row>>
    ELSE IF Head(best).ticker = row.ticker
         THEN <<IF ScoreAbove(row, Head(best)) THEN row ELSE Head(best)>> \o Tail(best)
         ELSE <<Head(best)>> \o MapSet(Tail(best), row)

\* for (const row of out): the map after each row is held by the bound
\* variable b, computed once
RECURSIVE BestByTicker(_, _)
BestByTicker(best, rows) ==
    IF rows = <<>> THEN best
    ELSE CHOOSE r \in {BestByTicker(b, Tail(rows)) : b \in {MapSet(best, Head(rows))}} : TRUE

\* b.roi_annualized ?? -1
SortKey(r) ==
    IF IsNull(r.roi_annualized) THEN Int2Rat(-1) ELSE r.roi_annualized

\* a mutant of ComesAfter: ascending order
ComesAfter_ascending(a, b) ==
    RLt(SortKey(b), SortKey(a))

\* the comparator (b ?? -1) - (a ?? -1) is positive: a sorts after b
ComesAfter(a, b) ==
    RLt(SortKey(a), SortKey(b))

\* Array.prototype.sort is stable: row goes in front of the first element
\* that sorts after it
RECURSIVE Insert(_, _)
Insert(sorted, row) ==
    IF sorted = <<>> THEN <<row>>
    ELSE IF ComesAfter(Head(sorted), row) THEN <<row>> \o sorted
         ELSE <<Head(sorted)>> \o Insert(Tail(sorted), row)

RECURSIVE SortRows(_, _)
SortRows(sorted, rows) ==
    IF rows = <<>> THEN sorted
    ELSE CHOOSE r \in {SortRows(s, Tail(rows)) : s \in {Insert(sorted, Head(rows))}} : TRUE

\* payloadArr of the handler for the collected rows out
PayloadArr(rows) ==
    CHOOSE r \in {SortRows(<<>>, b) : b \in {BestByTicker(<<>>, rows)}} : TRUE

\* ------------------------------------------------------------ provider data

\* a put of the provider's chain; t.off is the distance in days of its
\* expiration from the requested one, t.strike, t.bid, ... are raw values
Contract(t, d) ==
    [expiration        |-> RawNum((d.exp + t.off) * DAY_SEC, 1),
     strike            |-> t.strike,
     bid               |-> t.bid,
     ask               |-> t.ask,
     lastPrice         |-> t.last,
     impliedVolatility |-> t.iv,
     delta             |-> t.delta]

Tpl(off, strike, bid, ask, last, iv, delta) ==
    [off |-> off, strike |-> strike, bid |-> bid, ask |-> ask, last |-> last,
     iv |-> iv, delta |-> delta]

\* strike 90, bid 1.00, ask 1.20, delta -0.08
TplA ==
    Tpl(0, RawNum(90, 1), RawNum(1, 1), RawNum(6, 5), RawUndef, RawNum(8, 25), RawNum(-2, 25))

\* strike 92, bid 1.50, no delta: the delta comes from bsPutDelta
TplNoDelta ==
    Tpl(0, RawNum(92, 1), RawNum(3, 2), RawUndef, RawUndef, RawNum(1, 5), RawUndef)

\* strike 95, bid 3.00, ask 3.20, delta -0.05
TplRich ==
    Tpl(0, RawNum(95, 1), RawNum(3, 1), RawNum(16, 5), RawUndef, RawNum(3, 10), RawNum(-1, 20))

\* strike equal to the spot
TplAtSpot ==
    Tpl(0, RawNum(100, 1), RawNum(1, 1), RawNum(1, 1), RawUndef, RawUndef, RawNum(-1, 20))

\* a positive bid with a negative ask: the midpoint is negative
TplNegAsk ==
    Tpl(0, RawNum(90, 1), RawNum(1, 1), RawNum(-3, 1), RawUndef, RawUndef, RawNum(-1, 20))

\* a delta of +0.05 from the provider
TplPosDelta ==
    Tpl(0, RawNum(90, 1), RawNum(2, 1), RawNum(2, 1), RawUndef, RawUndef, RawNum(1, 20))

\* bid 0 (scenario B)
TplZeroBid ==
    Tpl(0, RawNum(90, 1), RawNum(0, 1), RawNum(6, 5), RawNum(1, 1), RawUndef, RawNum(-2, 25))

\* an expiration one day after the requested one
TplNextDay ==
    Tpl(1, RawNum(90, 1), RawNum(1, 1), RawNum(6, 5), RawUndef, RawUndef, RawNum(-2, 25))

\* a JSON null strike, which num() reads as 0
TplNullStrike ==
    Tpl(0, RawNull, RawNum(1, 1), RawNum(6, 5), RawUndef, RawUndef, RawNum(-2, 25))

Quote(rmp, bid, ask, prev) ==
    [regularMarketPrice |-> rmp, bid |-> bid, ask |-> ask, previousClose |-> prev]

QuoteNone ==
    Quote(RawUndef, RawUndef, RawUndef, RawUndef)

Quote100 ==
    Quote(RawNum(100, 1), RawNum(99, 1), RawNum(101, 1), RawNum(98, 1))

\* no regular market price: the spot comes from previousClose
QuotePrev100 ==
    Quote(RawUndef, RawNaN, RawUndef, RawNum(100, 1))

\* a JSON null regular market price, which num() reads as 0
QuoteNullPrice ==
    Quote(RawNull, RawNum(99, 1), RawNum(101, 1), RawNum(98, 1))

\* a negative price
QuoteNegative ==
    Quote(RawNum(-100, 1), RawUndef, RawUndef, RawUndef)

RECURSIVE Contracts(_, _)
Contracts(tpls, d) ==
    IF tpls = <<>> THEN <<>>
    ELSE <<Contract(Head(tpls), d)>> \o Contracts(Tail(tpls), d)

\* a parsed response body: optionChain.result[0].options[0].puts (empty
\* when any of these is missing) and optionChain.result[0].quote
Body(tpls, q, d) ==
    [puts |-> Contracts(tpls, d), quote |-> q]

\* ------------------------------------------------------------ state

\* tickers of a run of the small environment, at most
MaxTickers ==
    2

\* runs (requests handled one after the other by the process), at most
MaxRuns ==
    2

\* provider responses that are failures, at most
MaxFaults ==
    2

\* clock ticks, at most
MaxTicks ==
    1

\* tickers of the run of the batch environment
BatchTickers ==
    6

\* provider responses that are failures in the batch environment, at most
BatchFaults ==
    1

\* puts of a chain in the pipeline environment, at most
MaxPuts ==
    2

\* the number given as ?limit=, at most
MaxLimit ==
    1

\* req.query.limit || 500
DEFAULT_LIMIT ==
    500

\* Math.min(..., 1000)
MAX_LIMIT ==
    1000

\* a mutant of BATCH
BATCH_six ==
    5 + 1

\* const BATCH = 5
BATCH ==
    5

\* const FRESH_MS = 10 * 60 * 1000
FRESH_MS ==
    10 * 60 * 1000

\* the time one clock tick adds: the freshness window
TickMs ==
    FRESH_MS

SYMS ==
    <<"A", "B", "C", "D", "E", "F", "G", "H">>

SymbolSet ==
    {SYMS[k] : k \in 1..Len(SYMS)}

Distinct(n) ==
    [k \in 1..n |-> SYMS[k]]

\* the list with "A" again at place j: an explicit ?symbol= list is not
\* deduplicated
DupAt(n, j) ==
    [k \in 1..n |-> IF k = j THEN "A" ELSE SYMS[k]]

TickerLists ==
    {Distinct(n) : n \in 0..MaxTickers} \cup {DupAt(n, n) : n \in 2..MaxTickers}

\* ?limit= is absent, or a number
QueryLimits ==
    {[given |-> FALSE, n |-> 0]} \cup {[given |-> TRUE, n |-> n] : n \in 1..MaxLimit}

\* const limit = Math.min(Number(req.query.limit || 500), 1000)
LimitOf(raw) ==
    IF (IF raw.given THEN raw.n ELSE DEFAULT_LIMIT) < MAX_LIMIT
    THEN (IF raw.given THEN raw.n ELSE DEFAULT_LIMIT)
    ELSE MAX_LIMIT

Requests ==
    {[explicit |-> e, limit |-> LimitOf(raw)] : e \in BOOLEAN, raw \in QueryLimits}

\* a mutant of StoreRows: the query has no LIMIT
StoreRows_noLimit(limit) ==
    {Distinct(n) : n \in 0..MaxTickers}

\* SELECT DISTINCT ticker ... LIMIT $1 on a store of n tickers
StoreRows(limit) ==
    {Distinct(IF n < limit THEN n ELSE limit) : n \in 0..MaxTickers}

\* the lists that the handler may come to scan for the request q
TickersFor(q) ==
    IF q.explicit THEN TickerLists ELSE StoreRows(q.limit)

\* the request of the batch environment
BatchRequest ==
    [explicit |-> TRUE, limit |-> DEFAULT_LIMIT]

BatchLists ==
    {Distinct(BatchTickers), DupAt(BatchTickers, BatchTickers)}

\* Monday noon UTC: 4 days to expiry
ClockMonday ==
    [D |-> 4, h |-> 12, o |-> 0]

\* Thursday 23:00 at UTC-5: the UTC date is already the Friday of expiry,
\* 0 days to expiry
ClockThursdayLate ==
    [D |-> 7, h |-> 23, o |-> 0 - 5]

\* the bodies a 2xx chain response may carry
Bodies(d) ==
    {Body(<<TplA, TplRich>>, Quote100, d), Body(<<>>, QuoteNone, d)}

\* the body of a provider whose chains do not change: every other symbol
\* has puts
BodyOfSymbol(sym, d) ==
    IF sym \in {"A", "C", "E", "G"} THEN Body(<<TplA, TplRich>>, Quote100, d)
    ELSE Body(<<>>, QuoteNone, d)

\* the puts of the single-contract environment: every field of the put
\* is absent, JSON null, or one of a few numbers
SingleTpls ==
    {Tpl(off, strike, bid, ask, last, iv, delta) :
        off \in {0, 1},
        strike \in {RawUndef, RawNull, RawNum(80, 1), RawNum(90, 1), RawNum(98, 1),
                    RawNum(100, 1)},
        bid \in {RawUndef, RawNum(0, 1), RawNum(1, 1), RawNum(-1, 1)},
        ask \in {RawUndef, RawNull, RawNum(6, 5), RawNum(-3, 1)},
        last \in {RawUndef, RawNum(1, 1)},
        iv \in {RawUndef, RawNum(2, 5)},
        delta \in {RawUndef, RawNull, RawNum(-2, 25), RawNum(-1, 5), RawNum(1, 20)}}

\* the quotes of the single-contract environment
SingleQuotes ==
    {Quote(rmp, bid, ask, prev) :
        rmp \in {RawUndef, RawNull, RawNaN, RawNum(0, 1), RawNum(-100, 1), RawNum(100, 1)},
        bid \in {RawUndef, RawNull, RawNum(-1, 1), RawNum(99, 1)},
        ask \in {RawUndef, RawNum(0, 1), RawNum(101, 1)},
        prev \in {RawUndef, RawNull, RawNum(98, 1)}}

\* a chain of one put under the quote of 100, or the put TplA under any
\* of the quotes
SingleBodies(d) ==
    {Body(<<tpl>>, Quote100, d) : tpl \in SingleTpls}
        \cup {Body(<<TplA>>, q, d) : q \in SingleQuotes}

SeqsUpTo(S, n) ==
    UNION {[1..k -> S] : k \in 0..n}

PipeTpls ==
    {TplA, TplNoDelta, TplRich, TplAtSpot, TplNegAsk, TplPosDelta, TplZeroBid,
     TplNextDay, TplNullStrike}

PipeQuotes ==
    {Quote100, QuotePrev100, QuoteNone, QuoteNullPrice, QuoteNegative}

PipeBodies(d) ==
    {Body(tpls, q, d) : tpls \in SeqsUpTo(PipeTpls, MaxPuts), q \in PipeQuotes}

PipeSymbols ==
    <<"A", "B">>

VARIABLES
    env,            \* the environment [runs, faults, provider]: its limits, and
                    \* the chains its provider serves ("any", "fixed", "single")
    req,            \* the request [explicit, limit]: whether ?symbol= names
                    \* the tickers, and the limit read from ?limit=
    phase,          \* "idle", "run", "done" (200 sent), "error" (500 sent)
    run,            \* requests started so far
    tickers,        \* the ticker symbols of the run
    dt,             \* [exp, trade_dt, dte] of the run
    launched,       \* tickers whose task has been started
    pc,             \* per ticker: where its task is
    sess,           \* per ticker: id of the credential of its last chain request
    ret,            \* per ticker: what fetchYahooOptions returned
    yahooSession,   \* the shared credential [id, ts], id 0 for null
    now,            \* Date.now()
    cache,          \* yahooChainCache, by symbol (the expiry is the run's)
    out,            \* the rows collected
    response,       \* [status, body] sent to the caller, status 0 before
    chainReqs,      \* per ticker: chain requests its fetch has sent
    hadEntry,       \* per ticker: the cache entry of its key when its fetch began
    hist,           \* per ticker: the provider responses its fetch has received
    resp,           \* per ticker: the parsed body of its 2xx chain response
    revoked,        \* ids of the credentials that were held when a 401 cleared
                    \* the session
    faults,         \* failure responses so far
    calc            \* a call of a function of the module on its own:
                    \* [fn, args, done, val]

vars ==
    <<env, req, phase, run, tickers, dt, launched, pc, sess, ret, yahooSession, now,
      cache, out, response, chainReqs, hadEntry, hist, resp, revoked, faults, calc>>

\* no function is called on its own
NoCalc ==
    [fn |-> "none", args |-> <<>>, done |-> TRUE, val |-> <<>>]

NoRequest ==
    [explicit |-> FALSE, limit |-> 0]

NoSession ==
    [id |-> 0, ts |-> 0]

NoEntry ==
    [has |-> FALSE, chain |-> NullChain]

NoResponse ==
    [status |-> 0, body |-> <<>>]

NoDates ==
    [exp |-> 0, trade_dt |-> 0, dte |-> 0]

\* a body without an option chain
NoBody ==
    Body(<<>>, QuoteNone, NoDates)

\* the module has been loaded: no credential, an empty cache, no request
Loaded ==
    /\ req = NoRequest
    /\ phase = "idle"
    /\ run = 0
    /\ tickers = <<>>
    /\ dt = NoDates
    /\ launched = 0
    /\ pc = <<>>
    /\ sess = <<>>
    /\ ret = <<>>
    /\ yahooSession = NoSession
    /\ now = 0
    /\ cache = [s \in SymbolSet |-> NoEntry]
    /\ out = <<>>
    /\ response = NoResponse
    /\ chainReqs = <<>>
    /\ hadEntry = <<>>
    /\ hist = <<>>
    /\ resp = <<>>
    /\ revoked = {}
    /\ faults = 0
    /\ calc = NoCalc

Init ==
    /\ env = [runs |-> MaxRuns, faults |-> MaxFaults, provider |-> "any"]
    /\ Loaded

\* ------------------------------------------------------------ the handler

Min(a, b) ==
    IF a < b THEN a ELSE b

InFlightPcs ==
    {"boot", "crumb", "chain", "rboot", "rcrumb", "rchain"}

\* a mutant of SessionFresh: the age of the credential is not looked at
SessionFresh_noAge ==
    yahooSession.id # 0

\* yahooSession && Date.now() - yahooSession.ts < FRESH_MS
SessionFresh ==
    yahooSession.id # 0 /\ now - yahooSession.ts < FRESH_MS

\* a mutant of CacheHit: the cache is never consulted
CacheHit_never(sym) ==
    FALSE

\* yahooChainCache.has(cacheKey)
CacheHit(sym) ==
    cache[sym].has

\* A task runs synchronously up to its first pending request: a cache hit
\* returns the entry, a fresh session sends the chain request at once,
\* else the bootstrap request of the handshake is sent.
PrefixPc(sym) ==
    IF CacheHit(sym) THEN "fulfilled"
    ELSE IF SessionFresh THEN "chain"
    ELSE "boot"

\* a mutant of JoinOutcome: Promise.all, which rejects with the first
\* rejected task
JoinOutcome_all(S) ==
    IF "rejected" \in S THEN "throw"
    ELSE IF S \cap InFlightPcs # {} THEN "wait"
    ELSE "next"

\* a mutant of JoinOutcome: the join waits until every task is fulfilled
JoinOutcome_fulfilledOnly(S) ==
    IF S \subseteq {"fulfilled"} THEN "next" ELSE "wait"

\* a mutant of JoinOutcome: the batch is not awaited
JoinOutcome_noAwait(S) ==
    "next"

\* await Promise.allSettled(...) over tasks whose places are S
JoinOutcome(S) ==
    IF S \cap InFlightPcs # {} THEN "wait" ELSE "next"

LaunchedPcs ==
    {pc[t] : t \in 1..launched}

\* a mutant of BatchOf: the slice begins one place late
BatchOf_skip(i, n) ==
    (i + 2)..Min(i + BATCH, n)

\* tickers.slice(i, i + BATCH), as the places of the list
BatchOf(i, n) ==
    (i + 1)..Min(i + BATCH, n)

\* the rows pushed by the tasks of places lo..hi that hit the cache, in
\* the order of the list
RECURSIVE HitRows(_, _)
HitRows(lo, hi) ==
    IF lo > hi THEN <<>>
    ELSE (IF PrefixPc(tickers[lo]) = "fulfilled"
          THEN BuildCandidates(tickers[lo], cache[tickers[lo]].chain, dt)
          ELSE <<>>) \o HitRows(lo + 1, hi)

\* the request arrives: the ticker list is an explicit ?symbol= list or
\* the rows of the store, and the dates of the run are taken
StartRun(q, list, clock) ==
    /\ phase = "idle"
    /\ run < env.runs
    /\ req' = q
    /\ phase' = "run"
    /\ run' = run + 1
    /\ tickers' = list
    /\ dt' = RunDates(clock)
    /\ pc' = [t \in 1..Len(list) |-> "new"]
    /\ sess' = [t \in 1..Len(list) |-> 0]
    /\ ret' = [t \in 1..Len(list) |-> NullChain]
    /\ chainReqs' = [t \in 1..Len(list) |-> 0]
    /\ hadEntry' = [t \in 1..Len(list) |-> NoEntry]
    /\ hist' = [t \in 1..Len(list) |-> <<>>]
    /\ resp' = [t \in 1..Len(list) |-> NoBody]
    /\ UNCHANGED <<calc, env, launched, yahooSession, now, cache, out, response, revoked,
                   faults>>

\* pool.query rejects: the catch answers 500
DbFail(q) ==
    /\ phase = "idle"
    /\ run < env.runs
    /\ ~q.explicit
    /\ req' = q
    /\ phase' = "error"
    /\ run' = run + 1
    /\ response' = [status |-> 500, body |-> <<>>]
    /\ UNCHANGED <<calc, env, tickers, dt, launched, pc, sess, ret, yahooSession, now, cache,
                   out, chainReqs, hadEntry, hist, resp, revoked, faults>>

\* one turn of the for loop: the tasks of the next batch start
StartBatch ==
    /\ phase = "run"
    /\ launched < Len(tickers)
    /\ JoinOutcome(LaunchedPcs) = "next"
    /\ LET batch == BatchOf(launched, Len(tickers))
           hi    == Min(launched + BATCH, Len(tickers))
       IN  /\ launched' = hi
           /\ pc' = [t \in 1..Len(tickers) |->
                        IF t \in batch THEN PrefixPc(tickers[t]) ELSE pc[t]]
           /\ sess' = [t \in 1..Len(tickers) |->
                        IF t \in batch /\ PrefixPc(tickers[t]) = "chain"
                        THEN yahooSession.id ELSE sess[t]]
           /\ ret' = [t \in 1..Len(tickers) |->
                        IF t \in batch /\ PrefixPc(tickers[t]) = "fulfilled"
                        THEN cache[tickers[t]].chain ELSE ret[t]]
           /\ chainReqs' = [t \in 1..Len(tickers) |->
                        IF t \in batch /\ PrefixPc(tickers[t]) = "chain"
                        THEN 1 ELSE chainReqs[t]]
           /\ hadEntry' = [t \in 1..Len(tickers) |->
                        IF t \in batch THEN cache[tickers[t]] ELSE hadEntry[t]]
           /\ out' = out \o HitRows(launched + 1, hi)
    /\ UNCHANGED <<calc, env, req, phase, run, tickers, dt, yahooSession, now, cache,
                   response, hist, resp, revoked, faults>>

\* after the last batch: dedup, sort, answer 200 (when the join throws,
\* the catch answers 500)
Finish ==
    /\ phase = "run"
    /\ JoinOutcome(LaunchedPcs) # "wait"
    /\ JoinOutcome(LaunchedPcs) = "throw" \/ launched = Len(tickers)
    /\ phase' = IF JoinOutcome(LaunchedPcs) = "throw" THEN "error" ELSE "done"
    /\ response' = IF JoinOutcome(LaunchedPcs) = "throw"
                   THEN [status |-> 500, body |-> <<>>]
                   ELSE [status |-> 200, body |-> PayloadArr(out)]
    /\ UNCHANGED <<calc, env, req, run, tickers, dt, launched, pc, sess, ret, yahooSession,
                   now, cache, out, chainReqs, hadEntry, hist, resp, revoked, faults>>

\* the process takes the next request: what the handler holds in locals
\* is gone, the module's session and cache stay
NewRun ==
    /\ phase \in {"done", "error"}
    /\ run < env.runs
    /\ phase' = "idle"
    /\ tickers' = <<>>
    /\ dt' = NoDates
    /\ launched' = 0
    /\ pc' = <<>>
    /\ sess' = <<>>
    /\ ret' = <<>>
    /\ out' = <<>>
    /\ response' = NoResponse
    /\ chainReqs' = <<>>
    /\ hadEntry' = <<>>
    /\ hist' = <<>>
    /\ req' = NoRequest
    /\ resp' = <<>>
    /\ UNCHANGED <<calc, env, run, yahooSession, now, cache, revoked, faults>>

\* ------------------------------------------------------------ the fetch

\* a mutant of BootStep: a missing cookie is not noticed
BootStep_noCheck(o) ==
    CASE o = "err"      -> "throw"
      [] OTHER          -> "crumb"

\* ensureYahooSession after the bootstrap response o: with a cookie the
\* crumb request is sent, without one the session is null
BootStep(o) ==
    CASE o = "cookie"   -> "crumb"
      [] o = "nocookie" -> "null"
      [] OTHER          -> "throw"

\* ensureYahooSession after the crumb response o (status and body text)
CrumbStep(o) ==
    CASE o = "crumb"    -> "chain"
      [] o = "notok"    -> "null"
      [] o = "empty"    -> "null"
      [] OTHER          -> "throw"

\* a mutant of ChainStep: every non-2xx response is retried
ChainStep_retryAll(first, o) ==
    CASE o = "ok"       -> "data"
      [] o = "err"      -> "throw"
      [] OTHER          -> "retry"

\* loadOptions and the lines after it, for the response o to the first
\* chain request (first) or to the retry
ChainStep(first, o) ==
    CASE o = "ok"             -> "data"
      [] o = "s401" /\ first  -> "retry"
      [] o = "s401"           -> "null"
      [] o = "s500"           -> "null"
      [] OTHER                -> "throw"

\* the id of the credential that a handshake of ticker t stores: one for
\* its first handshake, one for the handshake of its retry
CredId(t, retry) ==
    2 * (run * Len(SYMS) + t) + (IF retry THEN 1 ELSE 0)

\* a mutant of CarriedId: the retry is sent with the session that the
\* fetch obtained before its first chain request
CarriedId_kept(t, cred) ==
    IF sess[t] # 0 THEN sess[t] ELSE cred.id

\* the credential that the chain request of ticker t carries after a
\* handshake: the session that ensureYahooSession has just returned
\* (session for the first request, s2 for the retry)
CarriedId(t, cred) ==
    cred.id

\* What the fetch of ticker t does on the response o, as decided by step:
\*   "crumb"  the crumb request is sent
\*   "chain"  the handshake stores the credential; the chain request (or
\*            its retry) is sent with it
\*   "retry"  401: yahooSession = null, the bootstrap request is sent
\*   "null"   the cache entry is set to null, fetch returns null
\*   "data"   the payload of body j is cached and returned, and the task
\*            pushes its rows
\*   "throw"  the rejection leaves fetch and the task
Continue(t, step, o, j) ==
    LET sym   == tickers[t]
        retry == pc[t] \in {"rboot", "rcrumb", "rchain"}
        cred  == [id |-> CredId(t, retry), ts |-> now]
        chain == IF step = "data" THEN PayloadOf(j) ELSE NullChain
    IN  /\ pc' = [pc EXCEPT ![t] =
                    CASE step = "crumb" -> IF retry THEN "rcrumb" ELSE "crumb"
                      [] step = "chain" -> IF retry THEN "rchain" ELSE "chain"
                      [] step = "retry" -> "rboot"
                      [] step = "throw" -> "rejected"
                      [] OTHER          -> "fulfilled"]
        /\ yahooSession' = CASE step = "chain" -> cred
                             [] step = "retry" -> NoSession
                             [] OTHER          -> yahooSession
        /\ sess' = [sess EXCEPT ![t] = IF step = "chain" THEN CarriedId(t, cred) ELSE @]
        /\ chainReqs' = [chainReqs EXCEPT ![t] = IF step = "chain" THEN @ + 1 ELSE @]
        /\ cache' = IF step \in {"null", "data"}
                    THEN [cache EXCEPT ![sym] = [has |-> TRUE, chain |-> chain]]
                    ELSE cache
        /\ ret' = [ret EXCEPT ![t] = IF step \in {"null", "data"} THEN chain ELSE @]
        /\ out' = IF step = "data" THEN out \o BuildCandidates(sym, chain, dt) ELSE out
        /\ hist' = [hist EXCEPT ![t] = Append(@, o)]
        /\ resp' = [resp EXCEPT ![t] = IF step = "data" THEN j ELSE @]
        /\ revoked' = IF step = "retry" THEN revoked \cup ({yahooSession.id} \ {0})
                      ELSE revoked

\* a failure response uses up one of the environment's faults
Fault(o, good) ==
    /\ o # good => faults < env.faults
    /\ faults' = IF o = good THEN faults ELSE faults + 1

\* the bootstrap request of ticker t completes
BootResp(t, o) ==
    /\ phase = "run"
    /\ pc[t] \in {"boot", "rboot"}
    /\ Fault(o, "cookie")
    /\ Continue(t, BootStep(o), o, NoBody)
    /\ UNCHANGED <<calc, env, req, phase, run, tickers, dt, launched, now, response, hadEntry>>

\* the crumb request of ticker t completes (status and text)
CrumbResp(t, o) ==
    /\ phase = "run"
    /\ pc[t] \in {"crumb", "rcrumb"}
    /\ Fault(o, "crumb")
    /\ Continue(t, CrumbStep(o), o, NoBody)
    /\ UNCHANGED <<calc, env, req, phase, run, tickers, dt, launched, now, response, hadEntry>>

\* the chain request of ticker t completes (status and, when 2xx, body j)
ChainResp(t, o, j) ==
    /\ phase = "run"
    /\ pc[t] \in {"chain", "rchain"}
    /\ Fault(o, "ok")
    /\ Continue(t, ChainStep(pc[t] = "chain", o), o, j)
    /\ UNCHANGED <<calc, env, req, phase, run, tickers, dt, launched, now, response, hadEntry>>

\* time passes.  The clock is read only against the held credential's
\* ts, so a tick is taken only while a fresh credential is held.
Tick ==
    /\ SessionFresh
    /\ now < MaxTicks * TickMs
    /\ now' = now + TickMs
    /\ UNCHANGED <<calc, env, req, phase, run, tickers, dt, launched, pc, sess, ret,
                   yahooSession, cache, out, response, chainReqs, hadEntry, hist, resp,
                   revoked, faults>>

Tasks ==
    1..Len(tickers)

\* the bodies that the response o to the chain request of ticker t may carry
ChainBodies(t, o) ==
    IF o # "ok" THEN {NoBody}
    ELSE IF env.provider = "fixed" THEN {BodyOfSymbol(tickers[t], dt)}
    ELSE IF env.provider = "single" THEN SingleBodies(dt)
    ELSE Bodies(dt)

Responses ==
    \/ \E t \in Tasks, o \in {"cookie", "nocookie", "err"} : BootResp(t, o)
    \/ \E t \in Tasks, o \in {"crumb", "notok", "empty", "err"} : CrumbResp(t, o)
    \/ \E t \in Tasks, o \in {"ok", "s401", "s500", "err"} :
           \E j \in ChainBodies(t, o) : ChainResp(t, o, j)

\* a process that handles up to MaxRuns requests of up to MaxTickers
\* tickers one after the other
Next ==
    \/ \E q \in Requests : \E list \in TickersFor(q) : StartRun(q, list, ClockMonday)
    \/ \E q \in Requests : DbFail(q)
    \/ StartBatch
    \/ Finish
    \/ NewRun
    \/ Responses
    \/ Tick

Spec ==
    Init /\ [][Next]_vars

\* the for loop has a next batch to start: StartBatch is enabled
BatchDue ==
    /\ phase = "run"
    /\ launched < Len(tickers)
    /\ JoinOutcome(LaunchedPcs) = "next"

\* Spec with its scheduling: every pending provider call settles, and the
\* event loop resumes the handler when the batch it awaits has settled.
\* The last conjunct is WF_vars(StartBatch) with ENABLED written out as
\* BatchDue, and the StartBatch step told by the growth of launched.
FairSpec ==
    /\ Spec
    /\ WF_vars(Responses)
    /\ WF_vars(Finish)
    /\ ([]<>(~BatchDue) \/ []<><<launched' > launched>>_vars)

\* ------------------------------------------------------------ one large run

\* the credential that the handshake of an earlier request has stored
WarmSession ==
    [id |-> 1, ts |-> 0]

\* the process has served a request before: it holds a fresh credential
Warmed ==
    /\ req = NoRequest
    /\ phase = "idle"
    /\ run = 0
    /\ tickers = <<>>
    /\ dt = NoDates
    /\ launched = 0
    /\ pc = <<>>
    /\ sess = <<>>
    /\ ret = <<>>
    /\ yahooSession = WarmSession
    /\ now = 0
    /\ cache = [s \in SymbolSet |-> NoEntry]
    /\ out = <<>>
    /\ response = NoResponse
    /\ chainReqs = <<>>
    /\ hadEntry = <<>>
    /\ hist = <<>>
    /\ resp = <<>>
    /\ revoked = {}
    /\ faults = 0
    /\ calc = NoCalc

InitBatch ==
    /\ env = [runs |-> 1, faults |-> BatchFaults, provider |-> "fixed"]
    /\ Warmed

\* one request over BatchTickers tickers: more than one batch
NextBatch ==
    \/ \E list \in BatchLists : StartRun(BatchRequest, list, ClockMonday)
    \/ DbFail([explicit |-> FALSE, limit |-> DEFAULT_LIMIT])
    \/ StartBatch
    \/ Finish
    \/ Responses
    \/ Tick

SpecBatch ==
    InitBatch /\ [][NextBatch]_vars

\* ------------------------------------------------------------ one contract

InitSingle ==
    /\ env = [runs |-> 1, faults |-> 0, provider |-> "single"]
    /\ Warmed

\* one request for the ticker "A", whose chain request is answered 2xx
\* with a chain of one put
NextSingle ==
    \/ \E clock \in {ClockMonday, ClockThursdayLate} :
           StartRun(BatchRequest, <<"A">>, clock)
    \/ StartBatch
    \/ \E t \in Tasks :
           pc[t] = "chain" /\ \E j \in ChainBodies(t, "ok") : ChainResp(t, "ok", j)
    \/ Finish

SpecSingle ==
    InitSingle /\ [][NextSingle]_vars

\* ------------------------------------------------------------ the pipeline alone

\* The rows of a run are a function of the chains fetched, and the answer
\* a function of the rows: the tasks of the tickers of PipeSymbols run
\* one after the other, each on a chain of up to MaxPuts puts.

InitPipe ==
    /\ env = [runs |-> 0, faults |-> 0, provider |-> "any"]
    /\ req = NoRequest
    /\ phase = "pipe"
    /\ run = 0
    /\ tickers = <<>>
    /\ dt \in {RunDates(ClockMonday), RunDates(ClockThursdayLate)}
    /\ launched = 0
    /\ pc = <<>>
    /\ sess = <<>>
    /\ ret = <<>>
    /\ yahooSession = NoSession
    /\ now = 0
    /\ cache = [s \in SymbolSet |-> NoEntry]
    /\ out = <<>>
    /\ response = NoResponse
    /\ chainReqs = <<>>
    /\ hadEntry = <<>>
    /\ hist = <<>>
    /\ resp = <<>>
    /\ revoked = {}
    /\ faults = 0
    /\ calc = NoCalc

\* the task of the next ticker, whose fetch returns the payload of a body j
PipeTask ==
    /\ phase = "pipe"
    /\ Len(tickers) < Len(PipeSymbols)
    /\ tickers' = Append(tickers, PipeSymbols[Len(tickers) + 1])
    /\ \E j \in PipeBodies(dt) :
           out' = out \o BuildCandidates(PipeSymbols[Len(tickers) + 1], PayloadOf(j), dt)
    /\ UNCHANGED <<calc, env, req, phase, run, dt, launched, pc, sess, ret, yahooSession, now,
                   cache, response, chainReqs, hadEntry, hist, resp, revoked, faults>>

\* dedup, sort, answer
PipeFinish ==
    /\ phase = "pipe"
    /\ phase' = "piped"
    /\ response' = [status |-> 200, body |-> PayloadArr(out)]
    /\ UNCHANGED <<calc, env, req, run, tickers, dt, launched, pc, sess, ret, yahooSession,
                   now, cache, out, chainReqs, hadEntry, hist, resp, revoked, faults>>

NextPipe ==
    \/ PipeTask
    \/ PipeFinish

SpecPipe ==
    InitPipe /\ [][NextPipe]_vars

\* ------------------------------------------------------------ functions on their own

\* the handler's variables
handlerVars ==
    <<env, req, phase, run, tickers, dt, launched, pc, sess, ret, yahooSession, now,
      cache, out, response, chainReqs, hadEntry, hist, resp, revoked, faults>>

\* the module has been loaded and no request is handled
Idle ==
    /\ env = [runs |-> 0, faults |-> 0, provider |-> "any"]
    /\ req = NoRequest
    /\ phase = "idle"
    /\ run = 0
    /\ tickers = <<>>
    /\ dt = NoDates
    /\ launched = 0
    /\ pc = <<>>
    /\ sess = <<>>
    /\ ret = <<>>
    /\ yahooSession = NoSession
    /\ now = 0
    /\ cache = [s \in SymbolSet |-> NoEntry]
    /\ out = <<>>
    /\ response = NoResponse
    /\ chainReqs = <<>>
    /\ hadEntry = <<>>
    /\ hist = <<>>
    /\ resp = <<>>
    /\ revoked = {}
    /\ faults = 0

\* the arguments of bsPutDelta: spot, strike and iv as raw values, dte a
\* number of days
DeltaArgs ==
    [spot   : {RawUndef, RawNull, RawNaN, RawNum(0, 1), RawNum(0 - 100, 1),
               RawNum(50, 1), RawNum(100, 1), RawNum(200, 1)},
     strike : {RawNull, RawNaN, RawNum(0, 1), RawNum(0 - 90, 1),
               RawNum(80, 1), RawNum(90, 1), RawNum(100, 1), RawNum(120, 1)},
     iv     : {RawUndef, RawNull, RawNum(0, 1), RawNum(0 - 1, 5), RawNum(1, 10),
               RawNum(2, 5), RawNum(3, 1), RawNum(7, 2), RawNum(40, 1), RawNum(250, 1)},
     dte    : {0 - 3, 0, 1, 4, 30, 365}]

InitDelta ==
    /\ Idle
    /\ calc \in {[fn |-> "bsPutDelta", args |-> a, done |-> FALSE, val |-> Null] :
                     a \in DeltaArgs}

\* bsPutDelta(spot, strike, iv, dte) is called and returns
CallBsPutDelta ==
    /\ calc.fn = "bsPutDelta"
    /\ ~calc.done
    /\ calc' = [calc EXCEPT
                   !.done = TRUE,
                   !.val  = bsPutDelta(num(calc.args.spot), num(calc.args.strike),
                                       num(calc.args.iv), calc.args.dte)]
    /\ UNCHANGED handlerVars

SpecDelta ==
    InitDelta /\ [][CallBsPutDelta]_vars

\* the arguments of normCdf: -4 to 4 in steps of 0.05
CdfArgs ==
    {(i - 80) * (FIX \div 20) : i \in 0..160}

InitCdf ==
    /\ Idle
    /\ calc \in {[fn |-> "normCdf", args |-> x, done |-> FALSE, val |-> 0] : x \in CdfArgs}

\* normCdf(x) is called and returns
CallNormCdf ==
    /\ calc.fn = "normCdf"
    /\ ~calc.done
    /\ calc' = [calc EXCEPT !.done = TRUE, !.val = normCdf(calc.args)]
    /\ UNCHANGED handlerVars

SpecCdf ==
    InitCdf /\ [][CallNormCdf]_vars

\* the clocks at which a run may start: each day of two weeks, at five
\* hours of the day, in zones behind, at and ahead of UTC
Clocks ==
    [D : 0..13, h : {0, 6, 12, 18, 23}, o : {0 - 5, 0, 2}]

InitDates ==
    /\ Idle
    /\ calc \in {[fn |-> "RunDates", args |-> c, done |-> FALSE, val |-> NoDates] :
                     c \in Clocks}

\* the handler computes exp, trade_dt and dte at the clock
CallRunDates ==
    /\ calc.fn = "RunDates"
    /\ ~calc.done
    /\ calc' = [calc EXCEPT !.done = TRUE, !.val = RunDates(calc.args)]
    /\ UNCHANGED handlerVars

SpecDates ==
    InitDates /\ [][CallRunDates]_vars

\* ------------------------------------------------------------ properties: the answer

\* the handler has answered 200 with the array response.body
Answered ==
    response.status = 200

\* the score of row a is at least that of row b, null the lowest score
ScoreAtLeast(a, b) ==
    \/ IsNull(b.roi_annualized)
    \/ (~IsNull(a.roi_annualized) /\ RLe(b.roi_annualized, a.roi_annualized))

\* the rows of the answer, as a set
Kept ==
    {response.body[i] : i \in 1..Len(response.body)}

\* C1: the answer holds at most one row per ticker; every ticker with a
\* row in out has a row in the answer; the row kept for a ticker is one
\* of its rows in out, and its roi_annualized (null the lowest) is at
\* least that of every row of that ticker in out.
C1_DedupLaw ==
    Answered =>
        /\ \A i, j \in 1..Len(response.body) :
               response.body[i].ticker = response.body[j].ticker => i = j
        /\ \A k \in 1..Len(out) : \E r \in Kept : r.ticker = out[k].ticker
        /\ \A r \in Kept : \E k \in 1..Len(out) : out[k] = r
        /\ \A r \in Kept : \A k \in 1..Len(out) :
               out[k].ticker = r.ticker => ScoreAtLeast(r, out[k])

\* two tickers have candidates, and a candidate with a score has been
\* dropped in favour of another of its ticker
C1_Witness ==
    /\ Answered
    /\ Len(response.body) = 2
    /\ \E k \in 1..Len(out) : out[k] \notin Kept /\ ~IsNull(out[k].roi_annualized)

\* C2: the answer is ordered by non-increasing roi_annualized, and no row
\* with a null roi_annualized stands before a row with a number.
C2_SortedNullsLast ==
    Answered =>
        \A i, j \in 1..Len(response.body) :
            i < j =>
                LET a == response.body[i].roi_annualized
                    b == response.body[j].roi_annualized
                IN  /\ IsNull(a) => IsNull(b)
                    /\ (~IsNull(a) /\ ~IsNull(b)) => RLe(b, a)

\* the sort has moved the row of the second ticker in front of the row of
\* the first, whose score is lower
C2_Witness ==
    /\ Answered
    /\ Len(response.body) = 2
    /\ response.body[1].ticker = PipeSymbols[2]
    /\ response.body[2].ticker = PipeSymbols[1]
    /\ RLt(response.body[2].roi_annualized, response.body[1].roi_annualized)

\* C3: every row pushed to out has a strike below its spot, both
\* positive, a moneyness strictly between 0 and 1, and a premium above 0.
C3_MoneynessPremium ==
    \A k \in 1..Len(out) :
        /\ ~IsNull(out[k].strike) /\ ~IsNull(out[k].spot)
        /\ RLt(Int2Rat(0), out[k].strike)
        /\ RLt(out[k].strike, out[k].spot)
        /\ ~IsNull(out[k].moneyness)
        /\ RLt(Int2Rat(0), out[k].moneyness)
        /\ RLt(out[k].moneyness, Int2Rat(1))
        /\ out[k].moneyness = RDiv(out[k].strike, out[k].spot)
        /\ ~IsNull(out[k].premium)
        /\ RLt(Int2Rat(0), out[k].premium)

\* the chains of two tickers have been scanned; all of one was skipped
\* and a candidate of the other is in the answer
C3_Witness ==
    /\ phase = "piped"
    /\ Len(tickers) = 2
    /\ Len(out) = 1
    /\ Len(response.body) = 1

\* C4: every row pushed to out has a null delta or one in [-1, 0].
C4_DeltaInRange ==
    \A k \in 1..Len(out) :
        \/ IsNull(out[k].delta)
        \/ (RLe(Int2Rat(-1), out[k].delta) /\ RLe(out[k].delta, Int2Rat(0)))

\* ------------------------------------------------------------ properties: the fetch

Last(h) ==
    h[Len(h)]

\* the task of ticker t has begun its fetch
Begun(t) ==
    pc[t] # "new"

\* C5: a fetch that begins when the cache holds an entry for its key
\* returns that entry and sends no request; a fetch that has returned
\* normally has left an entry for its key, and at the moment it returns
\* after a provider response the entry is what it returns.
C5_HitSendsNothing ==
    /\ [](\A t \in Tasks :
            /\ (Begun(t) /\ hadEntry[t].has) =>
                   /\ pc[t] = "fulfilled"
                   /\ ret[t] = hadEntry[t].chain
                   /\ chainReqs[t] = 0
                   /\ hist[t] = <<>>
            /\ pc[t] = "fulfilled" => cache[tickers[t]].has)
    /\ [][\A t \in Tasks :
            (phase = "run" /\ phase' = "run" /\ pc[t] \in InFlightPcs /\ pc'[t] = "fulfilled")
                => cache'[tickers[t]] = [has |-> TRUE, chain |-> ret'[t]]]_vars

\* in a second request of the process a fetch has returned a payload from
\* the cache
C5_Witness ==
    /\ run = 2
    /\ \E t \in Tasks :
           Begun(t) /\ hadEntry[t].has /\ pc[t] = "fulfilled" /\ ~ret[t].isNull

\* C5 as stated: two fetches with the same key send at most one chain
\* request in total.
C5_AtMostOneChainRequest ==
    \A t1, t2 \in Tasks :
        (t1 # t2 /\ tickers[t1] = tickers[t2]) => chainReqs[t1] + chainReqs[t2] <= 1

\* the responses before the k-th of h are those of a handshake that went well
CleanBefore(h, k) ==
    \A i \in 1..(k - 1) : h[i] \in {"cookie", "crumb"}

\* C6: a fetch sends at most 2 chain requests; when it has sent 2, the
\* first was answered 401, then a handshake went well, and the second
\* carries the credential of that handshake; the 401 makes the fetch
\* clear the shared session and start the handshake; a 401 to the retry,
\* or any other non-2xx chain response, is the last response of the
\* fetch, which returns null; no response is followed by more than the
\* one retry.
C6_RetryOnceOn401 ==
    /\ [](\A t \in Tasks :
            /\ chainReqs[t] <= 2
            /\ chainReqs[t] = 2 =>
                   \E k \in 1..Len(hist[t]) :
                       /\ hist[t][k] = "s401"
                       /\ CleanBefore(hist[t], k)
                       /\ Len(hist[t]) >= k + 2
                       /\ hist[t][k + 1] = "cookie"
                       /\ hist[t][k + 2] = "crumb"
                       /\ sess[t] = CredId(t, TRUE)
            /\ \A k \in 1..Len(hist[t]) :
                   (hist[t][k] = "s500" \/ (hist[t][k] = "s401" /\ ~CleanBefore(hist[t], k)))
                       => /\ k = Len(hist[t])
                          /\ pc[t] = "fulfilled"
                          /\ ret[t].isNull
            /\ \A k \in 1..Len(hist[t]) :
                   hist[t][k] \in {"ok", "err"} => k = Len(hist[t]))
    /\ [][\A t \in Tasks :
            (phase = "run" /\ phase' = "run" /\ pc[t] = "chain" /\ hist'[t] = Append(hist[t], "s401"))
                => /\ yahooSession' = NoSession
                   /\ pc'[t] = "rboot"
                   /\ chainReqs'[t] = chainReqs[t]]_vars

\* a fetch has sent its retry after a 401 and received the payload
C6_Witness ==
    \E t \in Tasks :
        /\ chainReqs[t] = 2
        /\ pc[t] = "fulfilled"
        /\ Last(hist[t]) = "ok"
        /\ ~ret[t].isNull

\* C9: a fetch whose bootstrap response carries no cookie returns null
\* without throwing and without a chain request (and without a crumb
\* request); a run in which that happens to every ticker answers 200 with
\* an empty array.
C9_NoCookieNoData ==
    /\ \A t \in Tasks :
           (hist[t] # <<>> /\ hist[t][1] = "nocookie") =>
               /\ hist[t] = <<"nocookie">>
               /\ pc[t] = "fulfilled"
               /\ ret[t].isNull
               /\ chainReqs[t] = 0
    /\ (phase = "done" /\ \A t \in Tasks : hist[t] = <<"nocookie">>) =>
           (response = [status |-> 200, body |-> <<>>] /\ out = <<>>)

\* a run of two tickers has ended, and the bootstrap of each had no cookie
C9_Witness ==
    /\ phase = "done"
    /\ Len(tickers) = 2
    /\ \A t \in Tasks : hist[t] = <<"nocookie">>

\* C10: a fetch whose last provider call raised a network error has
\* returned null and set the cache entry of its key.
C10_ErrorsCaught ==
    \A t \in Tasks :
        (hist[t] # <<>> /\ Last(hist[t]) = "err") =>
            /\ pc[t] = "fulfilled"
            /\ ret[t].isNull
            /\ cache[tickers[t]].has

\* ------------------------------------------------------------ properties: the batches

RowsOfTicker(rows, sym) ==
    LET Test(r) == r.ticker = sym
    IN  SelectSeq(rows, Test)

RECURSIVE RowCount(_, _)
RowCount(sym, t) ==
    IF t = 0 THEN 0
    ELSE RowCount(sym, t - 1)
         + (IF tickers[t] = sym THEN Len(BuildCandidates(sym, ret[t], dt)) ELSE 0)

\* C7: a task that rejects or has no data changes nothing for the
\* others.  What a fetch returns after a 2xx response is the payload of
\* its own symbol's chain; the rows in out of a symbol are the rows of
\* the chains returned to the tasks of that symbol; the handler answers
\* 500 only when the ticker query fails, and when it answers 200 every
\* ticker's task has been started and has settled.
C7_FailureIsolation ==
    /\ \A t \in Tasks :
           (pc[t] = "fulfilled" /\ ~ret[t].isNull) =>
               ret[t] = PayloadOf(BodyOfSymbol(tickers[t], dt))
    /\ \A sym \in {tickers[t] : t \in Tasks} :
           Len(RowsOfTicker(out, sym)) = RowCount(sym, Len(tickers))
    /\ \A t \in Tasks :
           \A rows \in {BuildCandidates(tickers[t], ret[t], dt)} :
               \A k \in 1..Len(rows) : \E i \in 1..Len(out) : out[i] = rows[k]
    /\ phase = "error" => tickers = <<>>
    /\ phase = "done" =>
           /\ launched = Len(tickers)
           /\ \A t \in Tasks : pc[t] \in {"fulfilled", "rejected"}

\* a task of the first batch has rejected; the run has ended with the
\* rows of its siblings, and the task of the second batch has run
C7_Witness ==
    /\ phase = "done"
    /\ \E t \in 1..BATCH : pc[t] = "rejected"
    /\ \E t \in 1..BATCH : pc[t] = "fulfilled" /\ RowsOfTicker(out, tickers[t]) # <<>>
    /\ \A t \in (BATCH + 1)..Len(tickers) : pc[t] = "fulfilled"

\* the tasks with a provider call in flight
InFlight ==
    {t \in Tasks : pc[t] \in InFlightPcs}

\* C8: at most 5 provider calls are in flight.
C8_AtMostFiveInFlight ==
    Cardinality(InFlight) <= 5

\* 5 calls are in flight and a ticker waits for the next batch
C8_Witness ==
    /\ Cardinality(InFlight) = 5
    /\ launched < Len(tickers)

\* ------------------------------------------------------------ properties: the outcome of a run

\* C11: the handler answers 500 only when the query for the tickers
\* failed, before any task was started; a run whose tasks were started
\* ends with the answer 200 and an array, whatever happened to its tasks.
C11_ErrorOnlyFromStore ==
    /\ response.status \in {0, 200, 500}
    /\ response.status = 500 <=> phase = "error"
    /\ response.status = 200 <=> phase = "done"
    /\ phase = "error" => (~req.explicit /\ tickers = <<>> /\ launched = 0)
    /\ (phase = "run" /\ launched > 0) => response.status = 0

\* a run has answered 200 although one of its tasks was rejected by a
\* network error and the fetch of another was answered 500
C11_Witness ==
    /\ Answered
    /\ \E t \in Tasks : pc[t] = "rejected" /\ Last(hist[t]) = "err"
    /\ \E t \in Tasks : pc[t] = "fulfilled" /\ hist[t] # <<>> /\ Last(hist[t]) = "s500"

\* ------------------------------------------------------------ properties: one contract

\* the fetch of the only ticker has returned the payload of a 2xx body
\* with one put, and its task has scanned it
Scanned ==
    /\ Len(pc) = 1
    /\ pc[1] = "fulfilled"
    /\ hist[1] = <<"ok">>
    /\ Len(resp[1].puts) = 1

\* the put as the provider sent it
It ==
    resp[1].puts[1]

\* the raw value x is a number above 0
RawPos(x) ==
    x.k = "num" /\ x.n > 0

\* the put expires on the day asked for
OnExpiry ==
    It.expiration = RawNum(dt.exp * DAY_SEC, 1)

\* the put passes every check before the acceptance filters, and its
\* strike is above 0.85 of the spot
Eligible ==
    /\ OnExpiry
    /\ ~IsNull(ret[1].spot)
    /\ It.strike.k = "num"
    /\ RLt(It.strike, ret[1].spot)
    /\ RLt(RMul(Rat(85, 100), ret[1].spot), It.strike)
    /\ RawPos(It.bid)
    /\ It.ask.k = "num" => RLt(Int2Rat(0), RAdd(It.bid, It.ask))

\* the provider sent no delta and bsPutDelta has no volatility to use
Unresolved ==
    /\ It.delta.k \in {"undef", "nan"}
    /\ ~RawPos(It.impliedVolatility)

\* C12: every row pushed has a pop that is null or at least 90 and a
\* moneyness that is a number above 0.85, its pop being null exactly when
\* its delta is; and a put whose delta is unresolved is pushed, with a
\* null pop, when it passes the other checks and its strike is above
\* 0.85 of the spot.
C12_AcceptanceFilters ==
    /\ \A k \in 1..Len(out) :
           /\ IsNull(out[k].pop) \/ RLe(Int2Rat(90), out[k].pop)
           /\ IsNull(out[k].pop) <=> IsNull(out[k].delta)
           /\ ~IsNull(out[k].moneyness)
           /\ RLt(Rat(85, 100), out[k].moneyness)
    /\ (Scanned /\ Eligible /\ Unresolved) =>
           (Len(out) = 1 /\ IsNull(out[1].delta) /\ IsNull(out[1].pop))

\* a put without delta and without volatility has become a candidate
C12_Witness ==
    /\ Scanned
    /\ Unresolved
    /\ Len(out) = 1
    /\ IsNull(out[1].pop)

\* C13: roi is premium / strike x 100 and, when dte > 0, roi_annualized
\* is premium / strike x 365 / dte x 100, premium being the row's premium.
C13_RoiFromPremium ==
    \A k \in 1..Len(out) :
        /\ out[k].roi = RMul(RDiv(out[k].premium, out[k].strike), Int2Rat(100))
        /\ out[k].dte > 0 =>
               out[k].roi_annualized =
                   RMul(RMul(RDiv(out[k].premium, out[k].strike), Rat(365, out[k].dte)),
                        Int2Rat(100))

\* C14: every row pushed has a bid above 0, and a put whose bid is
\* absent, null, zero or negative is never pushed, whatever its ask and
\* last price.
C14_ZeroBidRule ==
    /\ \A k \in 1..Len(out) : ~IsNull(out[k].bid) /\ RLt(Int2Rat(0), out[k].bid)
    /\ (Scanned /\ ~RawPos(It.bid)) => out = <<>>

\* scenario B: a put with bid 0, ask 1.20 and last price 1, which passes
\* the strike check and has a delta of -0.08, has been skipped
C14_Witness ==
    /\ Scanned
    /\ OnExpiry
    /\ It.strike = RawNum(90, 1)
    /\ It.bid = RawNum(0, 1)
    /\ It.ask = RawNum(6, 5)
    /\ It.lastPrice = RawNum(1, 1)
    /\ It.delta = RawNum(-2, 25)
    /\ ret[1].spot = Int2Rat(100)
    /\ out = <<>>

\* C15: the delta of a row is the provider's when the provider sent a
\* number, and otherwise (delta null or absent), with a spot, a strike
\* and a volatility above 0, the value of bsPutDelta, which is not null.
C15_FallbackDelta ==
    Scanned =>
        \A k \in 1..Len(out) :
            /\ It.delta.k = "num" => out[k].delta = [n |-> It.delta.n, d |-> It.delta.d]
            /\ (It.delta.k # "num" /\ RawPos(It.impliedVolatility)) =>
                   /\ ~IsNull(out[k].delta)
                   /\ out[k].delta = bsPutDelta(out[k].spot, out[k].strike,
                                                num(It.impliedVolatility), dt.dte)

\* ------------------------------------------------------------ properties: the limit

\* C16: when the tickers came from the store, the answer has at most
\* limit rows; when they were listed by the caller, the answer has a row
\* for every ticker that has a row in out, however many.
C16_LimitCap ==
    Answered =>
        /\ ~req.explicit => Len(response.body) <= req.limit
        /\ req.explicit => {r.ticker : r \in Kept} = {out[k].ticker : k \in 1..Len(out)}

\* the store was asked for one ticker and the answer has one row
C16_Witness ==
    /\ Answered
    /\ ~req.explicit
    /\ req.limit = 1
    /\ Len(response.body) = 1

\* the caller listed two tickers with a limit of one and the answer has
\* two rows
C16_WitnessExplicit ==
    /\ Answered
    /\ req.explicit
    /\ req.limit = 1
    /\ Len(response.body) = 2

\* ------------------------------------------------------------ properties: the session

\* a step within a run
InRun ==
    phase = "run" /\ phase' = "run"

\* the fetch of ticker t receives the response o in this step
Receives(t, o) ==
    hist'[t] = Append(hist[t], o)

\* C17: a fetch that begins without a cache entry, while a credential is
\* held whose age is under 10 minutes, uses that credential for its chain
\* request and sends no handshake request; otherwise it sends the
\* bootstrap request.  The crumb request is sent only after a bootstrap
\* response with a cookie.  A bootstrap response without a cookie, or a
\* crumb response that is not ok or empty, ends the acquisition with
\* nothing stored.  An ok crumb response stores a new credential stamped
\* with the current time, which the fetch uses for its chain request.
C17_Acquire ==
    /\ [](\A t \in Tasks :
            /\ pc[t] \in {"crumb", "rcrumb"} => Last(hist[t]) = "cookie"
            /\ pc[t] = "boot" => hist[t] = <<>>
            /\ pc[t] = "rboot" => Last(hist[t]) = "s401")
    /\ [][InRun =>
            \A t \in Tasks :
                /\ (pc[t] = "new" /\ pc'[t] # "new" /\ ~hadEntry'[t].has) =>
                       IF yahooSession.id # 0 /\ now - yahooSession.ts < 10 * 60 * 1000
                       THEN /\ pc'[t] = "chain"
                            /\ sess'[t] = yahooSession.id
                            /\ hist'[t] = <<>>
                            /\ yahooSession' = yahooSession
                       ELSE /\ pc'[t] = "boot"
                            /\ chainReqs'[t] = 0
                /\ (Receives(t, "nocookie") \/ Receives(t, "notok") \/ Receives(t, "empty")) =>
                       /\ yahooSession' = yahooSession
                       /\ chainReqs'[t] = chainReqs[t]
                       /\ pc'[t] = "fulfilled"
                       /\ ret'[t].isNull
                /\ Receives(t, "cookie") =>
                       /\ yahooSession' = yahooSession
                       /\ pc'[t] \in {"crumb", "rcrumb"}
                /\ Receives(t, "crumb") =>
                       /\ yahooSession' = [id |-> sess'[t], ts |-> now]
                       /\ sess'[t] \notin {0, sess[t], yahooSession.id}
                       /\ chainReqs'[t] = chainReqs[t] + 1
                       /\ pc'[t] \in {"chain", "rchain"}]_vars

\* a fetch has sent the bootstrap request although a credential is held:
\* its age is 10 minutes or more
C17_Witness ==
    /\ yahooSession.id # 0
    /\ now - yahooSession.ts >= 10 * 60 * 1000
    /\ \E t \in Tasks : pc[t] = "boot"

\* a fetch of a later request has sent its chain request with the held
\* credential, without a handshake
C17_WitnessReuse ==
    /\ run = 2
    /\ \E t \in Tasks : pc[t] = "chain" /\ hist[t] = <<>> /\ sess[t] = yahooSession.id

\* C18: in every interleaving of the fetches, a chain request is sent
\* with a credential, and never with one that was the shared credential
\* when a 401 cleared it.
C18_NoStaleCredential ==
    [][InRun =>
          \A t \in Tasks :
              chainReqs'[t] > chainReqs[t] =>
                  /\ sess'[t] # 0
                  /\ sess'[t] \notin revoked'
                  /\ sess'[t] = yahooSession'.id]_vars

\* a fetch has sent its retry with a new credential after its 401 cleared
\* the shared one, while another fetch still waits for the response to the
\* request it sent with the cleared credential before
C18_Witness ==
    \E t \in Tasks : \E u \in Tasks \ {t} :
        /\ pc[t] = "rchain"
        /\ chainReqs[t] = 2
        /\ sess[t] \notin revoked
        /\ pc[u] = "chain"
        /\ sess[u] \in revoked

\* ------------------------------------------------------------ properties: scheduling

RECURSIVE RowsInListOrder(_, _, _)
\* the rows of the tickers list[t..], each ticker's rows after those of the
\* tickers before it in the list, under the fixed provider
RowsInListOrder(list, d, t) ==
    IF t > Len(list) THEN <<>>
    ELSE BuildCandidates(list[t], PayloadOf(BodyOfSymbol(list[t], d)), d)
             \o RowsInListOrder(list, d, t + 1)

\* C19: with the fixed provider and no failure response, the returned
\* array is the same in every completion order of the tasks: it is the
\* array of the run in which the tasks complete in list order.
C19_SchedulingDeterminism ==
    (phase = "done" /\ Answered /\ faults = 0) =>
        \A rows \in {RowsInListOrder(tickers, dt, 1)} :
            response.body = PayloadArr(rows)

\* ------------------------------------------------------------ properties: the spot

\* the chain of the one ticker was fetched from the provider
Fetched ==
    /\ Len(pc) = 1
    /\ pc[1] = "fulfilled"
    /\ hist[1] = <<"ok">>

\* the quote fields of the fetched body, in the order they are tried
SpotFields ==
    <<resp[1].quote.regularMarketPrice, resp[1].quote.bid,
      resp[1].quote.ask, resp[1].quote.previousClose>>

\* C20: the spot of a fetched chain is the first of regular market price,
\* bid, ask, previous close that is a finite number above zero; when there
\* is none the fetch result is null and the ticker has no row.
C20_SpotFirstPositive ==
    Fetched =>
        IF \E i \in 1..4 : RawPos(SpotFields[i])
        THEN LET first == CHOOSE i \in 1..4 :
                              /\ RawPos(SpotFields[i])
                              /\ \A k \in 1..(i - 1) : ~RawPos(SpotFields[k])
             IN  /\ ~ret[1].isNull
                 /\ ret[1].spot = num(SpotFields[first])
        ELSE /\ ret[1].isNull
             /\ out = <<>>

\* the part of C20 that the code has: a usable first field is the spot
C20_FirstFieldPositive ==
    (Fetched /\ RawPos(SpotFields[1])) =>
        ret[1].spot = num(SpotFields[1])

\* ------------------------------------------------------------ properties: the delta

\* bsPutDelta has returned
DeltaReturned ==
    calc.fn = "bsPutDelta" /\ calc.done

\* spot, strike and iv are finite numbers above zero
DeltaArgsValid ==
    RawPos(calc.args.spot) /\ RawPos(calc.args.strike) /\ RawPos(calc.args.iv)

CdfReturned ==
    calc.fn = "normCdf" /\ calc.done

\* C22: normCdf(-x) = 1 - normCdf(x) for every x, and normCdf(0) is within
\* 1e-6 of 0.5.
C22_CdfSymmetric ==
    CdfReturned =>
        /\ normCdf(0 - calc.args) = FIX - calc.val
        /\ calc.args = 0 => Abs(calc.val - FIX \div 2) <= 1

\* the parts of C22 that the code has: the symmetry away from 0, and the
\* value at 0; and, computed to 20 decimals, normCdf(0) is above 0.5
C22_SymmetricAwayFromZero ==
    CdfReturned =>
        /\ calc.args # 0 => normCdf(0 - calc.args) = FIX - calc.val
        /\ calc.args = 0 => Abs(calc.val - FIX \div 2) <= 1
        /\ NormCdfZeroAboveHalf

\* ------------------------------------------------------------ properties: the expiry

\* the dates of a run have been computed
DatesReturned ==
    calc.fn = "RunDates" /\ calc.done

\* C23: on every day of the week, the expiry is a Friday strictly after
\* today and at most 7 days ahead: the coming Friday when today is not a
\* Friday, the Friday 7 days later when it is.
C23_NextFriday ==
    DatesReturned =>
        LET today == calc.args.D
            exp   == calc.val.exp
        IN  /\ getDay(exp) = 5
            /\ exp > today
            /\ exp <= today + 7
            /\ getDay(today) = 5 => exp = today + 7

\* the part of C23 that the code has: where local time is UTC
C23_NextFridayInUTC ==
    (DatesReturned /\ calc.args.o = 0) =>
        LET today == calc.args.D
            exp   == calc.val.exp
        IN  /\ getDay(exp) = 5
            /\ exp > today
            /\ exp <= today + 7
            /\ today = calc.val.trade_dt
            /\ getDay(today) = 5 => exp = today + 7

\* ------------------------------------------------------------ properties: batches

\* the batch of the ticker at place t, counted from 0
BatchIndex(t) ==
    (t - 1) \div 5

\* the task at place t has settled
Settled(t) ==
    pc[t] \in {"fulfilled", "rejected"}

\* C24: the task of a ticker, and so any provider call for it, starts only
\* when the task of every ticker of the batches before has settled,
\* fulfilled or rejected.
C24_BatchBarrier ==
    /\ [](\A t \in Tasks : \A u \in Tasks :
             (BatchIndex(u) < BatchIndex(t) /\ pc[t] # "new") => Settled(u))
    /\ [][InRun =>
              \A t \in Tasks :
                  (pc[t] = "new" /\ pc'[t] # "new") =>
                      \A u \in Tasks : BatchIndex(u) < BatchIndex(t) => Settled(u)]_vars

\* a provider call of the second batch is in flight after a task of the
\* first batch was rejected
C24_Witness ==
    \E t \in Tasks : \E u \in Tasks :
        /\ BatchIndex(t) = 1
        /\ pc[t] \in InFlightPcs
        /\ BatchIndex(u) = 0
        /\ pc[u] = "rejected"

\* ------------------------------------------------------------ properties: writers

\* the fetches whose handshake is in progress: the bootstrap or the crumb
\* request is pending
Handshaking ==
    {t \in Tasks : pc[t] \in {"boot", "crumb", "rboot", "rcrumb"}}

\* C25: at most one handshake is in progress at any moment.
C25_OneHandshake ==
    Cardinality(Handshaking) <= 1

\* the part of C25 that the code has: while a credential under 10 minutes
\* old is held and no 401 arrives, no fetch starts a handshake
C25_NoHandshakeWhileFresh ==
    [][(InRun /\ yahooSession.id # 0 /\ now - yahooSession.ts < 10 * 60 * 1000) =>
           \A t \in Tasks :
               (pc'[t] \in {"boot", "rboot"} /\ pc[t] # pc'[t]) => Receives(t, "s401")]_vars

\* the fetch of ticker t writes the cache entry of its key in this step:
\* it returns from a pending request with null or with a payload
WritesEntry(t) ==
    pc[t] \in InFlightPcs /\ pc'[t] = "fulfilled"

\* no symbol is twice in the ticker list
DistinctTickers ==
    \A t \in Tasks : \A u \in Tasks : tickers[t] = tickers[u] => t = u

\* C26: for every key, at most one fetch is in progress at a time, and the
\* cache entry is written at most once: no fetch writes an entry that
\* exists.
C26_WriteOnce ==
    /\ [](\A t \in Tasks : \A u \in Tasks :
             (tickers[t] = tickers[u] /\ pc[t] \in InFlightPcs /\ pc[u] \in InFlightPcs)
                 => t = u)
    /\ [][InRun => \A t \in Tasks : WritesEntry(t) => ~cache[tickers[t]].has]_vars

\* the part of C26 that the code has: runs over lists without a repeated
\* symbol
C26_WriteOnceDistinct ==
    [][(InRun /\ DistinctTickers) =>
           \A t \in Tasks : WritesEntry(t) => ~cache[tickers[t]].has]_vars

\* ------------------------------------------------------------ properties: the premium

\* a raw value is present: it is a number
Present(x) ==
    x.k = "num"

\* the premium of the scanned contract by the rule: the midpoint of bid
\* and ask, the one side present, the last trade price, or none
RulePremium ==
    IF Present(It.bid) /\ Present(It.ask)
    THEN RDiv(RAdd(num(It.bid), num(It.ask)), Int2Rat(2))
    ELSE IF Present(It.bid) THEN num(It.bid)
    ELSE IF Present(It.ask) THEN num(It.ask)
    ELSE IF Present(It.lastPrice) THEN num(It.lastPrice)
    ELSE Null

\* C27: the premium of a row is the bid/ask midpoint when its contract has
\* both, the one side present when it has one, the last trade price when
\* it has neither; a contract with none of the three has no row.
C27_PremiumRule ==
    Scanned =>
        /\ \A k \in 1..Len(out) : out[k].premium = RulePremium
        /\ IsNull(RulePremium) => out = <<>>

\* the part of C27 that the code has: contracts whose ask is a number or
\* absent
C27_PremiumRuleNoNull ==
    (Scanned /\ It.ask # RawNull) =>
        /\ \A k \in 1..Len(out) : out[k].premium = RulePremium
        /\ IsNull(RulePremium) => out = <<>>

\* ------------------------------------------------------------ properties: the 401

\* C28: when the chain request of a fetch, sent with the credential
\* sess[t], is answered 401, the shared credential that is cleared is that
\* credential (or none is held): a credential that another fetch stored
\* later stays.
C28_ClearsOnlyOwn ==
    [][InRun =>
           \A t \in Tasks :
               (pc[t] = "chain" /\ Receives(t, "s401")) =>
                   \/ yahooSession.id \in {0, sess[t]}
                   \/ yahooSession' = yahooSession]_vars

\* ------------------------------------------------------------ properties: the partition

\* the places whose task has been started
Started ==
    {t \in Tasks : pc[t] # "new"}

\* C29: the batches are consecutive slices of 5 places of the list (the
\* last may be smaller); each place is handed to fetch in exactly one
\* batch and once: the places started are those of the batches so far, a
\* batch starts exactly its own places, and a started task is not started
\* again; a run that answers has started every place.
C29_BatchesPartition ==
    /\ [](phase \in {"run", "done"} =>
              /\ launched <= Len(tickers)
              /\ launched % 5 = 0 \/ launched = Len(tickers)
              /\ Started = 1..launched
              /\ phase = "done" => launched = Len(tickers))
    /\ [][InRun =>
              /\ launched' # launched =>
                     /\ launched' = Min(launched + 5, Len(tickers))
                     /\ {t \in Tasks : pc[t] = "new" /\ pc'[t] # "new"}
                            = (launched + 1)..launched'
              /\ \A t \in Tasks :
                     pc[t] # "new" => (pc'[t] # "new" /\ hadEntry'[t] = hadEntry[t])]_vars

\* the second batch, of one place, is in progress after the first, of 5
C29_Witness ==
    /\ phase = "run"
    /\ Len(tickers) = 6
    /\ launched = 6
    /\ pc[6] \in InFlightPcs
    /\ \A t \in 1..5 : Settled(t)

\* ------------------------------------------------------------ properties: termination

\* C30: when every provider call settles, a run that has begun answers
\* its caller, with the array or with the top-level error.
C30_Termination ==
    (phase = "run") ~> (phase \in {"done", "error"} /\ response.status \in {200, 500})

\* a run has answered although the fetch of one ticker was rejected and
\* the handshake of another failed
C30_Witness ==
    /\ phase = "done"
    /\ Answered
    /\ \E t \in Tasks : pc[t] = "rejected"
    /\ \E t \in Tasks : hist[t] # <<>> /\ Last(hist[t]) \in {"nocookie", "notok", "empty"}

====
